---- MODULE Spec2Model ----
(***************************************************************************)
(* Activation-key codec (utils/hmac.ts), the in-memory session registry    *)
(* (services/activationService.ts) and the routes the application mounts   *)
(* (app.ts, routes/index.ts) of the Traducteur Rapide server.              *)
(*                                                                         *)
(* Text is a sequence of character codes (ASCII; 65533 is U+FFFD), so that *)
(* splitting, joining, Base64URL and UTF-8 are computed, not assumed.      *)
(* HMAC-SHA256 is idealised as a collision-free keyed digest: its hex text *)
(* is the hex rendering of the length-prefixed key and message, which has  *)
(* the properties of the real digest that the code relies on (a function   *)
(* of key and message only, lowercase hex, at least DigestLen characters)  *)
(* and the one cryptography promises (no collisions).                      *)
(***************************************************************************)
EXTENDS Integers, Sequences, FiniteSets, TLC

(* ---- state ------------------------------------------------------------ *)
VARIABLES
    activeSessions, \* ActivationService.activeSessions
    secret,         \* ActivationService.secret
    now,            \* the clock read by new Date()
    call,           \* the most recent call on the service or the router, and what it returned
    before,         \* activeSessions as that call found it
    log,            \* the console lines verifyActivationKey wrote during the most recent call
    thread,         \* the call executing on the JavaScript thread, with its position and locals
    suspended,      \* the calls that have started and given up the thread before returning
    serial,         \* the outcome of the calls returned so far, each applied whole, in order of return
    pc,             \* the codec's caller: "start", "ready" (holds a key), "verified"
    token,          \* the key text that caller holds
    issued,         \* the claims and secret given to createActivationKey for it
    tamper,         \* what was done to the key after it was issued
    vsecret,        \* the secret given to verifyActivationKey
    result          \* the VerificationResult returned


(* ---- character codes -------------------------------------------------- *)
Bar == 124
Dot == 46
Equals == 61
Plus == 43
Slash == 47
Minus == 45
Underscore == 95
Replacement == 65533
NaN == -1

(* ---- bounds ----------------------------------------------------------- *)
MaxTime == 4
MaxExpiry == 3

(* ---- generic text helpers (String.prototype.split, template strings) --- *)
(* first position of character c in text s, 0 when there is none *)
IndexOf(s, c) ==
    LET hits == {i \in 1..Len(s) : s[i] = c}
    IN  IF hits = {} THEN 0 ELSE CHOOSE i \in hits : \A j \in hits : i <= j

(* last position of character c in text s, 0 when there is none *)
LastIndexOf(s, c) ==
    LET hits == {i \in 1..Len(s) : s[i] = c}
    IN  IF hits = {} THEN 0 ELSE CHOOSE i \in hits : \A j \in hits : i >= j

(* s.split(c) for a one-character separator: always at least one part *)
RECURSIVE Split(_, _)
Split(s, c) ==
    LET i == IndexOf(s, c)
    IN  IF i = 0 THEN <<s>>
        ELSE <<SubSeq(s, 1, i - 1)>> \o Split(SubSeq(s, i + 1, Len(s)), c)

Repeat(c, n) == [i \in 1..n |-> c]

ReplaceAll(s, from, to) == [i \in 1..Len(s) |-> IF s[i] = from THEN to ELSE s[i]]

Remove(s, c) == SelectSeq(s, LAMBDA x : x # c)

(* ---- Buffer.from(str) / buf.toString('utf-8') -------------------------- *)
RECURSIVE Utf8Encode(_)
(* characters below 128 are one byte; U+FFFD is EF BF BD *)
Utf8Encode(str) ==
    LET i == IndexOf(str, Replacement)
    IN  IF i = 0 THEN str
        ELSE SubSeq(str, 1, i - 1) \o <<239, 191, 189>>
                 \o Utf8Encode(SubSeq(str, i + 1, Len(str)))

RECURSIVE Utf8Decode(_)
(* bytes below 128 are themselves; EF BF BD is U+FFFD; any other byte of  *)
(* 128 or more is rendered as U+FFFD (no model text holds other           *)
(* multi-byte characters)                                                 *)
Utf8Decode(bytes) ==
    LET high == {i \in 1..Len(bytes) : bytes[i] >= 128}
        i    == CHOOSE k \in high : \A j \in high : k <= j
    IN  IF high = {} THEN bytes
        ELSE IF Len(bytes) >= i + 2 /\ SubSeq(bytes, i, i + 2) = <<239, 191, 189>>
             THEN SubSeq(bytes, 1, i - 1) \o <<Replacement>>
                      \o Utf8Decode(SubSeq(bytes, i + 3, Len(bytes)))
        ELSE SubSeq(bytes, 1, i - 1) \o <<Replacement>>
                 \o Utf8Decode(SubSeq(bytes, i + 1, Len(bytes)))

(* ---- Base64 ----------------------------------------------------------- *)
(* the character of a 6-bit value in the standard alphabet *)
Base64Char(v) ==
    IF v < 26 THEN 65 + v
    ELSE IF v < 52 THEN 97 + (v - 26)
    ELSE IF v < 62 THEN 48 + (v - 52)
    ELSE IF v = 62 THEN Plus
    ELSE Slash

(* the 6-bit value of a character, -1 for a character outside the alphabet; *)
(* the decoder accepts the URL-safe characters too                          *)
Unbase64(c) ==
    IF c >= 65 /\ c <= 90 THEN c - 65
    ELSE IF c >= 97 /\ c <= 122 THEN c - 97 + 26
    ELSE IF c >= 48 /\ c <= 57 THEN c - 48 + 52
    ELSE IF c = Plus \/ c = Minus THEN 62
    ELSE IF c = Slash \/ c = Underscore THEN 63
    ELSE -1

(* buf.toString('base64'): four characters for every three bytes, the    *)
(* last group padded with '='                                             *)
ToBase64(b) ==
    LET n      == Len(b)
        byte(k) == IF k <= n THEN b[k] ELSE 0
        char(j) ==
            LET g == (j - 1) \div 4
                r == (j - 1) % 4
                b1 == byte(3 * g + 1)
                b2 == byte(3 * g + 2)
                b3 == byte(3 * g + 3)
            IN  IF r = 0 THEN Base64Char(b1 \div 4)
                ELSE IF r = 1 THEN Base64Char((b1 % 4) * 16 + b2 \div 16)
                ELSE IF r = 2 THEN
                    IF 3 * g + 2 > n THEN Equals
                    ELSE Base64Char((b2 % 16) * 4 + b3 \div 64)
                ELSE IF 3 * g + 3 > n THEN Equals
                ELSE Base64Char(b3 % 64)
    IN  [j \in 1..(4 * ((n + 2) \div 3)) |-> char(j)]

(* Buffer.from(text, 'base64') never fails: decoding stops at the first   *)
(* '=' and characters outside the alphabet are skipped                    *)
Sextets(s) ==
    LET stop == IndexOf(s, Equals)
        body == IF stop = 0 THEN s ELSE SubSeq(s, 1, stop - 1)
        kept == SelectSeq(body, LAMBDA c : Unbase64(c) >= 0)
    IN  [i \in 1..Len(kept) |-> Unbase64(kept[i])]

(* three bytes for every four 6-bit values; a trailing group of two gives *)
(* one byte, of three gives two, a single trailing value gives none       *)
SextetsToBytes(v) ==
    LET n == Len(v)
        r == n % 4
        nbytes == 3 * (n \div 4) + (IF r >= 2 THEN r - 1 ELSE 0)
        byte(k) ==
            LET g == (k - 1) \div 3
                q == (k - 1) % 3
            IN  IF q = 0 THEN v[4 * g + 1] * 4 + v[4 * g + 2] \div 16
                ELSE IF q = 1 THEN (v[4 * g + 2] % 16) * 16 + v[4 * g + 3] \div 4
                ELSE (v[4 * g + 3] % 4) * 64 + v[4 * g + 4]
    IN  [k \in 1..nbytes |-> byte(k)]

FromBase64(s) == SextetsToBytes(Sextets(s))

(* ---- utils/hmac.ts ---------------------------------------------------- *)
base64UrlEncode(str) ==
    Remove(ReplaceAll(ReplaceAll(ToBase64(Utf8Encode(str)), Plus, Minus),
                      Slash, Underscore),
           Equals)

base64UrlDecode(str) ==
    LET padding == Repeat(Equals, (4 - (Len(str) % 4)) % 4)
        base64  == ReplaceAll(ReplaceAll(str, Minus, Plus), Underscore, Slash)
                       \o padding
    IN  Utf8Decode(FromBase64(base64))

(* ---- Date ------------------------------------------------------------- *)
IsDigit(c) == c >= 48 /\ c <= 57

RECURSIVE DigitsValue(_)
DigitsValue(s) ==
    IF s = <<>> THEN 0
    ELSE 10 * DigitsValue(SubSeq(s, 1, Len(s) - 1)) + (s[Len(s)] - 48)

(* new Date(text).getTime(): the model's timestamp text is a run of       *)
(* decimal digits (whole clock units), optionally followed by '.' and a   *)
(* run of zeros (the fraction that toISOString always writes); any other  *)
(* text is an invalid date (NaN). Two texts can name the same instant.    *)
ParseDate(text) ==
    LET parts == Split(text, Dot)
        whole == parts[1]
    IN  IF Len(parts) > 2 \/ whole = <<>> THEN NaN
        ELSE IF \E i \in 1..Len(whole) : ~IsDigit(whole[i]) THEN NaN
        ELSE IF Len(parts) = 2
                /\ (parts[2] = <<>> \/ \E i \in 1..Len(parts[2]) : parts[2][i] # 48)
             THEN NaN
        ELSE DigitsValue(whole)

(* a <= b on Date values: false when either is an invalid date *)
DateLE(a, b) == a # NaN /\ b # NaN /\ a <= b

RECURSIVE Digits(_)
Digits(n) == IF n < 10 THEN <<48 + n>> ELSE Digits(n \div 10) \o <<48 + (n % 10)>>

(* date.toISOString(): the canonical text of an instant *)
ToISOString(t) == Digits(t) \o <<Dot, 48>>

(* ---- HMAC ------------------------------------------------------------- *)
DigestLen == 64

HexDigit(v) == IF v < 10 THEN 48 + v ELSE 97 + (v - 10)

HexOf(bytes) ==
    [j \in 1..(2 * Len(bytes)) |->
        IF j % 2 = 1 THEN HexDigit(bytes[(j + 1) \div 2] \div 16)
        ELSE HexDigit(bytes[j \div 2] % 16)]

(* crypto.createHmac('sha256', secret).update(payload).digest('hex') *)
generateSignature(payload, sec) ==
    LET k == Utf8Encode(sec)
        m == Utf8Encode(payload)
        h == HexOf(<<Len(k), Len(m)>> \o k \o m)
    IN  h \o Repeat(48, DigestLen - Len(h))

JoinPayload(identifier, expiry, plan, nonce) ==
    identifier \o <<Bar>> \o expiry \o <<Bar>> \o plan \o <<Bar>> \o nonce

createActivationKey(identifier, expiry, plan, nonce, sec) ==
    LET payload   == JoinPayload(identifier, expiry, plan, nonce)
        signature == generateSignature(payload, sec)
        fullKey   == payload \o <<Dot>> \o signature
    IN  base64UrlEncode(fullKey)

(* the comparison `signature !== expectedSignature` *)
SignatureDiffers_Never(signature, expectedSignature) == FALSE

SignatureDiffers(signature, expectedSignature) == signature # expectedSignature

(* the comparison `expiryDate <= new Date()` *)
HasExpired_Exclusive(expiryDate, clock) == expiryDate # NaN /\ expiryDate < clock

HasExpired(expiryDate, clock) == DateLE(expiryDate, clock)

Invalid(reason) == [valid |-> FALSE, payload |-> <<>>, reason |-> reason]

(* with a string argument nothing in the try block throws: Buffer.from    *)
(* and toString are total, split and the comparisons are total            *)
DecodeThrows(key) == FALSE

(* the VerificationResult; payload is <<>> when absent, reason "" when absent *)
verifyActivationKey(key, sec, clock) ==
    IF DecodeThrows(key) THEN Invalid("Key decoding failed")
    ELSE
    LET decoded == base64UrlDecode(key)
        parts   == Split(decoded, Bar)
    IN  IF Len(parts) # 4 THEN Invalid("Invalid payload format")
        ELSE
        LET identifier  == parts[1]
            expiry      == parts[2]
            plan        == parts[3]
            nonceAndSig == parts[4]
            lastParts   == Split(nonceAndSig, Dot)
        IN  IF Len(lastParts) # 2 THEN Invalid("Invalid nonce/signature format")
            ELSE
            LET nonce     == lastParts[1]
                signature == lastParts[2]
                payload   == JoinPayload(identifier, expiry, plan, nonce)
                expectedSignature == generateSignature(payload, sec)
                expiryDate == ParseDate(expiry)
            IN  IF SignatureDiffers(signature, expectedSignature)
                THEN Invalid("Invalid signature")
                ELSE IF expiryDate = NaN THEN Invalid("Invalid expiry date format")
                ELSE IF HasExpired(expiryDate, clock) THEN Invalid("Key has expired")
                ELSE [valid   |-> TRUE,
                      payload |-> <<[identifier |-> identifier, expiry |-> expiry,
                                     plan |-> plan, nonce |-> nonce]>>,
                      reason  |-> ""]

(* console.log(label, value): one line, the value being one text or, for  *)
(* an array, its texts                                                    *)
LogLine(label, texts) == [label |-> label, texts |-> texts]

(* the lines verifyActivationKey(key, secret) writes to the console, in   *)
(* order: the parts always, the rest once both format checks have passed  *)
verifyActivationKeyLog(key, sec) ==
    IF DecodeThrows(key) THEN <<>>
    ELSE
    LET parts == Split(base64UrlDecode(key), Bar)
    IN  IF Len(parts) # 4 THEN <<LogLine("Decoded key parts:", parts)>>
        ELSE
        LET lastParts == Split(parts[4], Dot)
        IN  IF Len(lastParts) # 2 THEN <<LogLine("Decoded key parts:", parts)>>
            ELSE
            LET payload == JoinPayload(parts[1], parts[2], parts[3], lastParts[1])
            IN  << LogLine("Decoded key parts:", parts),
                   LogLine("Recreated payload for signature verification:", <<payload>>),
                   LogLine("Secret used for signature verification:", <<sec>>),
                   LogLine("Expected signature:", <<generateSignature(payload, sec)>>),
                   LogLine("Provided signature:", <<lastParts[2]>>) >>

(* ---- inputs ----------------------------------------------------------- *)
IdU == <<117>>
IdV == <<118>>
IdWithBar == <<117, Bar, 118>>
PlanBasic == <<98>>
PlanPremium == <<112>>
NonceHex == <<110>>
NonceWithDot == <<110, Dot, 109>>
SecretS == <<115>>
SecretT == <<116>>
Unparsable == <<120>>

Identifiers == {IdU, IdWithBar}
Expiries == {ToISOString(t) : t \in 1..MaxExpiry} \cup {Digits(2), Unparsable}
Plans == {PlanBasic, PlanPremium}
Nonces == {NonceHex, NonceWithDot}
Secrets == {SecretS, SecretT}
Times == 0..MaxTime

(* characters put in place of a signature character *)
TamperChars == {Bar, Dot, 48, 102}

(* the text of a key whose signature was made for `signed` but whose      *)
(* claims are `carried`                                                   *)
ForgedKey(carried, signed, sec) ==
    base64UrlEncode(
        JoinPayload(carried.identifier, carried.expiry, carried.plan, carried.nonce)
        \o <<Dot>>
        \o generateSignature(
               JoinPayload(signed.identifier, signed.expiry, signed.plan, signed.nonce),
               sec))

(* the key with character pos of its signature replaced by c *)
TamperedSignatureKey(k, pos, c) ==
    LET decoded == base64UrlDecode(k)
        at      == LastIndexOf(decoded, Dot) + pos
    IN  base64UrlEncode([i \in 1..Len(decoded) |-> IF i = at THEN c ELSE decoded[i]])

Claims(identifier, expiry, plan, nonce) ==
    [identifier |-> identifier, expiry |-> expiry, plan |-> plan, nonce |-> nonce]

(* key texts that are not the output of createActivationKey *)
RawKeys ==
    { <<33, 33>>,                                   \* "!!"
      <<65>>,                                       \* "A"
      <<89, 81, 61, 61>>,                           \* "YQ=="
      base64UrlEncode(<<97>>),                      \* encodes "a"
      base64UrlEncode(JoinPayload(IdU, ToISOString(MaxExpiry), PlanBasic, NonceHex)),
      base64UrlEncode(<<97, Bar, 98>> \o <<Dot>> \o generateSignature(<<97, Bar, 98>>, SecretS)),
      JoinPayload(IdU, ToISOString(MaxExpiry), PlanBasic, NonceHex) }

ConfiguredSecret == SecretS

RegistryClaims ==
    { Claims(i, e, p, NonceHex) :
        i \in {IdU, IdV},
        e \in {ToISOString(2), ToISOString(MaxExpiry), Digits(3), Unparsable},
        p \in Plans }

GenuineKey(c, sec) ==
    createActivationKey(c.identifier, c.expiry, c.plan, c.nonce, sec)

(* the keys presented to the registry: issued under the configured        *)
(* secret, issued under another secret, altered after signing, malformed  *)
PresentedKeys ==
    { GenuineKey(c, ConfiguredSecret) : c \in RegistryClaims }
    \cup { GenuineKey(Claims(IdU, ToISOString(MaxExpiry), PlanBasic, NonceHex), SecretT),
           GenuineKey(Claims(IdU, ToISOString(MaxExpiry), PlanBasic, NonceWithDot), ConfiguredSecret),
           GenuineKey(Claims(IdWithBar, ToISOString(MaxExpiry), PlanBasic, NonceHex), ConfiguredSecret),
           ForgedKey(Claims(IdV, ToISOString(MaxExpiry), PlanPremium, NonceHex),
                     Claims(IdU, ToISOString(2), PlanBasic, NonceHex), ConfiguredSecret),
           ForgedKey(Claims(IdU, ToISOString(MaxExpiry), PlanBasic, NonceHex),
                     Claims(IdU, ToISOString(1), PlanBasic, NonceHex), ConfiguredSecret),
           TamperedSignatureKey(
               GenuineKey(Claims(IdU, ToISOString(MaxExpiry), PlanBasic, NonceHex), ConfiguredSecret),
               DigestLen, 122),
           <<33, 33>>,
           base64UrlEncode(JoinPayload(IdU, ToISOString(MaxExpiry), PlanBasic, NonceHex)) }

(* verifyActivationKey on the presented keys, evaluated once: the value   *)
(* is that of verifyActivationKey, looked up instead of recomputed        *)
Verifications ==
    [k \in PresentedKeys, s \in Secrets, t \in Times |-> verifyActivationKey(k, s, t)]

(* table[at] where the table has it, the value itself elsewhere *)
OrElse(table, at, otherwise) == IF at \in DOMAIN table THEN table[at] ELSE otherwise

Verified(k, sec, clock) ==
    OrElse(Verifications, <<k, sec, clock>>, verifyActivationKey(k, sec, clock))

VerificationLogs ==
    [k \in PresentedKeys, s \in Secrets |-> verifyActivationKeyLog(k, s)]

Logged(k, sec) == OrElse(VerificationLogs, <<k, sec>>, verifyActivationKeyLog(k, sec))

(* ---- services/activationService.ts ------------------------------------ *)
NoSessions == [i \in {} |-> 0]

(* Map.prototype.set / delete on the identifier-keyed session map *)
(* a slip that stores the session in a fresh map *)
MapSet_Alone(sessions, identifier, session) ==
    [i \in {identifier} |-> session]

MapSet(sessions, identifier, session) ==
    [i \in DOMAIN sessions \cup {identifier} |->
        IF i = identifier THEN session ELSE sessions[i]]

MapDelete(sessions, identifier) ==
    [i \in DOMAIN sessions \ {identifier} |-> sessions[i]]

(* a slip that forgets the sessions when a key is rejected *)
activateRejected_Clears(sessions, verification) ==
    [sessions |-> NoSessions,
     ret |-> [ok |-> FALSE, identifier |-> <<>>, plan |-> <<>>,
              expiry |-> <<>>, reason |-> verification.reason]]

(* activate, the verification having failed: { ok: false, reason } *)
activateRejected(sessions, verification) ==
    [sessions |-> sessions,
     ret |-> [ok |-> FALSE, identifier |-> <<>>, plan |-> <<>>,
              expiry |-> <<>>, reason |-> verification.reason]]

(* a slip that merges with the stored session: the later expiry is kept *)
activateAccepted_KeepsLater(sessions, payload, clock) ==
    [sessions |-> MapSet(sessions, payload.identifier,
                         [identifier  |-> payload.identifier,
                          plan        |-> payload.plan,
                          expiry      |-> IF /\ payload.identifier \in DOMAIN sessions
                                             /\ ParseDate(sessions[payload.identifier].expiry)
                                                    > ParseDate(payload.expiry)
                                          THEN sessions[payload.identifier].expiry
                                          ELSE payload.expiry,
                          activatedAt |-> clock]),
     ret |-> [ok |-> TRUE, identifier |-> payload.identifier,
              plan |-> payload.plan, expiry |-> payload.expiry,
              reason |-> ""]]

(* activate, the verification having succeeded with this payload *)
activateAccepted(sessions, payload, clock) ==
    [sessions |-> MapSet(sessions, payload.identifier,
                         [identifier  |-> payload.identifier,
                          plan        |-> payload.plan,
                          expiry      |-> payload.expiry,
                          activatedAt |-> clock]),
     ret |-> [ok |-> TRUE, identifier |-> payload.identifier,
              plan |-> payload.plan, expiry |-> payload.expiry,
              reason |-> ""]]

activateVerified(sessions, verification, clock) ==
    IF ~verification.valid \/ verification.payload = <<>>
    THEN activateRejected(sessions, verification)
    ELSE activateAccepted(sessions, verification.payload[1], clock)

(* activate(key): the new session map and the returned object, the        *)
(* verification being verifyActivationKey(key, this.secret); absent       *)
(* fields of the returned object are <<>> (identifier, plan, expiry) or   *)
(* "" (reason)                                                            *)
activate(sessions, key, sec, clock) ==
    activateVerified(sessions, Verified(key, sec, clock), clock)

(* a slip that takes a session expiring at this very instant for live *)
isActive_Exclusive(sessions, identifier, clock) ==
    IF identifier \notin DOMAIN sessions
    THEN [sessions |-> sessions, ret |-> FALSE]
    ELSE IF ParseDate(sessions[identifier].expiry) < clock
    THEN [sessions |-> MapDelete(sessions, identifier), ret |-> FALSE]
    ELSE [sessions |-> sessions, ret |-> TRUE]

(* a slip that reports an expired session and leaves it stored *)
isActive_KeepsExpired(sessions, identifier, clock) ==
    IF identifier \notin DOMAIN sessions
    THEN [sessions |-> sessions, ret |-> FALSE]
    ELSE IF DateLE(ParseDate(sessions[identifier].expiry), clock)
    THEN [sessions |-> sessions, ret |-> FALSE]
    ELSE [sessions |-> sessions, ret |-> TRUE]

(* isActive(identifier): the new session map and the returned boolean *)
isActive(sessions, identifier, clock) ==
    IF identifier \notin DOMAIN sessions
    THEN [sessions |-> sessions, ret |-> FALSE]
    ELSE IF DateLE(ParseDate(sessions[identifier].expiry), clock)
    THEN [sessions |-> MapDelete(sessions, identifier), ret |-> FALSE]
    ELSE [sessions |-> sessions, ret |-> TRUE]

(* getSession(identifier): <<session>>, or <<>> for null *)
getSession(sessions, identifier) ==
    IF identifier \in DOMAIN sessions THEN <<sessions[identifier]>> ELSE <<>>

(* a slip that keeps a session expiring at this very instant *)
cleanExpiredSessions_Exclusive(sessions, clock) ==
    [i \in {j \in DOMAIN sessions : ~(ParseDate(sessions[j].expiry) < clock)} |->
        sessions[i]]

(* a slip that empties the map *)
cleanExpiredSessions_All(sessions, clock) == NoSessions

(* cleanExpiredSessions(): the new session map *)
cleanExpiredSessions(sessions, clock) ==
    [i \in {j \in DOMAIN sessions : ~DateLE(ParseDate(sessions[j].expiry), clock)} |->
        sessions[i]]

(* ---- routes/index.ts, app.ts ------------------------------------------ *)
(* requireActivation (middleware/auth.ts): the new session map, whether   *)
(* next() is called, and the status of the response it sends otherwise;   *)
(* header is the text of X-Identifier, <<>> when missing or empty         *)
requireActivation(sessions, header, clock) ==
    IF header = <<>>
    THEN [sessions |-> sessions, next |-> FALSE, status |-> 401]
    ELSE LET check == isActive(sessions, header, clock)
         IN  IF ~check.ret
             THEN [sessions |-> check.sessions, next |-> FALSE, status |-> 401]
             ELSE [sessions |-> check.sessions, next |-> TRUE, status |-> 0]

(* the router App.initializeRoutes mounts under /api is createApiRoutes   *)
(* of routes/index.ts, whose POST /translate handler has no middleware;   *)
(* createTranslateRouter (routes/translate.ts), which puts                *)
(* requireActivation before its handler, is mounted nowhere               *)
TranslateRouteUsesRequireActivation == FALSE

(* ---- initial state and actions --------------------------------------- *)
vars == <<activeSessions, secret, now, call, before, log, thread, suspended, serial, pc, token, issued, tamper, vsecret, result>>
registryVars == <<activeSessions, secret, call, before>>
codecVars == <<pc, token, issued, tamper, vsecret, result>>
loopVars == <<thread, suspended, serial>>

NoRet ==
    [ok |-> FALSE, identifier |-> <<>>, plan |-> <<>>, expiry |-> <<>>,
     reason |-> "", session |-> <<>>, status |-> 0, translated |-> FALSE]
NoCall == [op |-> "none", arg |-> <<>>, ret |-> NoRet]
NoIssued == [identifier |-> <<>>, expiry |-> <<>>, plan |-> <<>>, nonce |-> <<>>,
             secret |-> <<>>]
NoTamper == [kind |-> "none", pos |-> 0, char |-> 0, field |-> "", value |-> <<>>]
NoResult == [valid |-> FALSE, payload |-> <<>>, reason |-> "not verified"]
NoFrame == [op |-> "none", arg |-> <<>>, at |-> "", found |-> NoSessions,
            verification |-> NoResult, session |-> <<>>, todo |-> {}]
NoOutcome == [sessions |-> NoSessions, ret |-> NoRet]

Init ==
    /\ activeSessions = NoSessions
    /\ secret = ConfiguredSecret
    /\ now = 0
    /\ call = NoCall
    /\ before = NoSessions
    /\ log = <<>>
    /\ thread = NoFrame
    /\ suspended = {}
    /\ serial = NoOutcome
    /\ pc = "start"
    /\ token = <<>>
    /\ issued = NoIssued
    /\ tamper = NoTamper
    /\ vsecret = <<>>
    /\ result = NoResult

(* ---- the registry and the router -------------------------------------- *)
ActivateReturns(k, r) ==
    /\ activeSessions' = r.sessions
    /\ call' = [op |-> "activate", arg |-> k,
                ret |-> [NoRet EXCEPT !.ok = r.ret.ok,
                                      !.identifier = r.ret.identifier,
                                      !.plan = r.ret.plan,
                                      !.expiry = r.ret.expiry,
                                      !.reason = r.ret.reason]]
    /\ before' = activeSessions
    /\ UNCHANGED <<secret, now>>
    /\ UNCHANGED codecVars
    /\ UNCHANGED loopVars

Activate(k) ==
    /\ ActivateReturns(k, activate(activeSessions, k, secret, now))
    /\ log' = Logged(k, secret)

IsActive(identifier) ==
    LET r == isActive(activeSessions, identifier, now)
    IN  /\ activeSessions' = r.sessions
        /\ call' = [op |-> "isActive", arg |-> identifier,
                    ret |-> [NoRet EXCEPT !.ok = r.ret]]
        /\ before' = activeSessions
        /\ log' = <<>>
        /\ UNCHANGED <<secret, now>>
        /\ UNCHANGED codecVars
        /\ UNCHANGED loopVars

(* a slip that gives getSession the lazy expiry of isActive *)
GetSession_LazyExpiry(identifier) ==
    /\ activeSessions' = isActive(activeSessions, identifier, now).sessions
    /\ call' = [op |-> "getSession", arg |-> identifier,
                ret |-> [NoRet EXCEPT !.session = getSession(activeSessions', identifier)]]
    /\ before' = activeSessions
    /\ log' = <<>>
    /\ UNCHANGED <<secret, now>>
    /\ UNCHANGED codecVars
    /\ UNCHANGED loopVars

GetSession(identifier) ==
    /\ call' = [op |-> "getSession", arg |-> identifier,
                ret |-> [NoRet EXCEPT !.session = getSession(activeSessions, identifier)]]
    /\ before' = activeSessions
    /\ log' = <<>>
    /\ UNCHANGED <<activeSessions, secret, now>>
    /\ UNCHANGED codecVars
    /\ UNCHANGED loopVars

CleanExpiredSessions ==
    /\ activeSessions' = cleanExpiredSessions(activeSessions, now)
    /\ call' = [op |-> "cleanExpiredSessions", arg |-> <<>>, ret |-> NoRet]
    /\ before' = activeSessions
    /\ log' = <<>>
    /\ UNCHANGED <<secret, now>>
    /\ UNCHANGED codecVars
    /\ UNCHANGED loopVars

(* POST /api/translate; resolves says whether translateService.translation *)
(* returns or throws                                                       *)
PostTranslate(header, resolves) ==
    LET gate == IF TranslateRouteUsesRequireActivation
                THEN requireActivation(activeSessions, header, now)
                ELSE [sessions |-> activeSessions, next |-> TRUE, status |-> 0]
    IN  /\ activeSessions' = gate.sessions
        /\ call' = [op |-> "translate", arg |-> header,
                    ret |-> IF ~gate.next
                            THEN [NoRet EXCEPT !.status = gate.status]
                            ELSE [NoRet EXCEPT !.translated = TRUE,
                                               !.status = IF resolves THEN 200 ELSE 500]]
        /\ before' = activeSessions
        /\ log' = <<>>
        /\ UNCHANGED <<secret, now>>
        /\ UNCHANGED codecVars
        /\ UNCHANGED loopVars

Tick ==
    /\ now < MaxTime
    /\ now' = now + 1
    /\ UNCHANGED registryVars
    /\ UNCHANGED log
    /\ UNCHANGED codecVars
    /\ UNCHANGED loopVars

Headers == {<<>>, IdU}

Next ==
    \/ \E k \in PresentedKeys : Activate(k)
    \/ \E i \in {IdU, IdV} : IsActive(i)
    \/ \E i \in {IdU, IdV} : GetSession(i)
    \/ CleanExpiredSessions
    \/ \E h \in Headers, resolves \in BOOLEAN : PostTranslate(h, resolves)
    \/ Tick

Spec == Init /\ [][Next]_vars

(* ---- the running application (app.ts) --------------------------------- *)
(* What happens in the process once App is constructed and listening: the *)
(* handlers of the router mounted under /api run when requests arrive,    *)
(* and time passes.  App.startCleanupTasks, the last call of the          *)
(* constructor, has an empty body: it registers no timer, so no step of   *)
(* the application calls cleanExpiredSessions; and no mounted handler     *)
(* calls isActive or getSession.  Requests need not arrive, so the only   *)
(* step that is bound to happen is the passing of time.                   *)
NextApp ==
    \/ \E k \in PresentedKeys : Activate(k)
    \/ \E h \in Headers, resolves \in BOOLEAN : PostTranslate(h, resolves)
    \/ Tick

SpecApp == Init /\ [][NextApp]_vars /\ WF_vars(Tick)

(* ---- concurrent request handlers on the event loop -------------------- *)
(* The methods of ActivationService statement by statement.  Requests     *)
(* arrive concurrently; a handler runs on the one JavaScript thread and   *)
(* another can take the thread only where the running one gives it up,    *)
(* at an await.  The unit of the clock is long against a synchronous      *)
(* call: time passes between calls.                                       *)
MaxSuspended == 1

(* whether the statement reached in a method of ActivationService is an   *)
(* await: the four methods have none                                      *)
YieldsAt_Always(op, at) == TRUE

YieldsAt(op, at) == FALSE

(* the keys and identifiers of the concurrent requests *)
LoopKeys ==
    { GenuineKey(Claims(IdU, ToISOString(2), PlanBasic, NonceHex), ConfiguredSecret),
      GenuineKey(Claims(IdU, ToISOString(MaxExpiry), PlanPremium, NonceHex), ConfiguredSecret),
      GenuineKey(Claims(IdV, ToISOString(2), PlanBasic, NonceHex), ConfiguredSecret),
      GenuineKey(Claims(IdU, ToISOString(MaxExpiry), PlanBasic, NonceHex), SecretT) }

LoopRequests ==
    { [op |-> "activate", arg |-> k] : k \in LoopKeys }
    \cup { [op |-> o, arg |-> i] : o \in {"isActive", "getSession"}, i \in {IdU, IdV} }
    \cup { [op |-> "cleanExpiredSessions", arg |-> <<>>] }

(* the frames that may execute the next statement *)
Runnable == IF thread # NoFrame THEN {thread} ELSE suspended

(* the returned object of activate, isActive and getSession as call.ret *)
ActivateRet(r) ==
    [NoRet EXCEPT !.ok = r.ok, !.identifier = r.identifier, !.plan = r.plan,
                  !.expiry = r.expiry, !.reason = r.reason]

IsActiveRet(b) == [NoRet EXCEPT !.ok = b]

GetSessionRet(session) == [NoRet EXCEPT !.session = session]

ActivateOutcome(r) == [sessions |-> r.sessions, ret |-> ActivateRet(r.ret)]

IsActiveOutcome(r) == [sessions |-> r.sessions, ret |-> IsActiveRet(r.ret)]

(* the whole call applied to a session map in one step *)
Whole(op, arg, sessions, sec, clock) ==
    IF op = "activate" THEN ActivateOutcome(activate(sessions, arg, sec, clock))
    ELSE IF op = "isActive" THEN IsActiveOutcome(isActive(sessions, arg, clock))
    ELSE IF op = "getSession"
    THEN [sessions |-> sessions, ret |-> GetSessionRet(getSession(sessions, arg))]
    ELSE [sessions |-> cleanExpiredSessions(sessions, clock), ret |-> NoRet]

(* the frame f goes on as g: it keeps the thread unless it yields *)
Continue(f, g) ==
    /\ thread' = IF YieldsAt(g.op, g.at) THEN NoFrame ELSE g
    /\ suspended' = IF YieldsAt(g.op, g.at)
                    THEN (suspended \ {f}) \cup {g}
                    ELSE suspended \ {f}
    /\ UNCHANGED <<call, before, log, serial>>

(* the frame f returns ret *)
Return(f, ret) ==
    /\ thread' = NoFrame
    /\ suspended' = suspended \ {f}
    /\ call' = [op |-> f.op, arg |-> f.arg, ret |-> ret]
    /\ before' = f.found
    /\ log' = IF f.op = "activate" THEN Logged(f.arg, secret) ELSE <<>>
    /\ serial' = Whole(f.op, f.arg, serial.sessions, secret, now)

(* a handler is given the thread and calls the service *)
StartCall(req) ==
    /\ thread = NoFrame
    /\ Cardinality(suspended) <= MaxSuspended
    /\ Continue(NoFrame, [NoFrame EXCEPT !.op = req.op, !.arg = req.arg,
                                         !.at = "entry", !.found = activeSessions])
    /\ UNCHANGED <<activeSessions, secret, now>>
    /\ UNCHANGED codecVars

(* activate: const verification = verifyActivationKey(key, this.secret);  *)
(* if (!verification.valid || !verification.payload) return { ok: false } *)
ActivateVerified(f, verification) ==
    /\ IF ~verification.valid \/ verification.payload = <<>>
       THEN Return(f, ActivateRet(activateRejected(activeSessions, verification).ret))
       ELSE Continue(f, [f EXCEPT !.at = "set", !.verification = verification])
    /\ UNCHANGED <<activeSessions, secret, now>>
    /\ UNCHANGED codecVars

ActivateVerify(f) ==
    /\ f.op = "activate" /\ f.at = "entry"
    /\ ActivateVerified(f, Verified(f.arg, secret, now))

(* activate: this.activeSessions.set(identifier, {...}); return { ok: true } *)
ActivateStored(f, r) ==
    /\ activeSessions' = r.sessions
    /\ Return(f, ActivateRet(r.ret))
    /\ UNCHANGED <<secret, now>>
    /\ UNCHANGED codecVars

ActivateSet(f) ==
    /\ f.op = "activate" /\ f.at = "set"
    /\ ActivateStored(f, activateAccepted(activeSessions, f.verification.payload[1], now))

(* isActive: const session = this.activeSessions.get(identifier);         *)
(* if (!session) return false                                             *)
IsActiveGet(f) ==
    /\ f.op = "isActive" /\ f.at = "entry"
    /\ IF f.arg \notin DOMAIN activeSessions
       THEN Return(f, IsActiveRet(FALSE))
       ELSE Continue(f, [f EXCEPT !.at = "compare", !.session = <<activeSessions[f.arg]>>])
    /\ UNCHANGED <<activeSessions, secret, now>>
    /\ UNCHANGED codecVars

(* isActive: if (expiryDate <= now) ... else return true *)
IsActiveCompare(f) ==
    /\ f.op = "isActive" /\ f.at = "compare"
    /\ IF DateLE(ParseDate(f.session[1].expiry), now)
       THEN Continue(f, [f EXCEPT !.at = "delete"])
       ELSE Return(f, IsActiveRet(TRUE))
    /\ UNCHANGED <<activeSessions, secret, now>>
    /\ UNCHANGED codecVars

(* isActive: this.activeSessions.delete(identifier); return false *)
IsActiveDelete(f) ==
    /\ f.op = "isActive" /\ f.at = "delete"
    /\ activeSessions' = MapDelete(activeSessions, f.arg)
    /\ Return(f, IsActiveRet(FALSE))
    /\ UNCHANGED <<secret, now>>
    /\ UNCHANGED codecVars

(* getSession: return this.activeSessions.get(identifier) || null *)
GetSessionGet(f) ==
    /\ f.op = "getSession" /\ f.at = "entry"
    /\ Return(f, GetSessionRet(getSession(activeSessions, f.arg)))
    /\ UNCHANGED <<activeSessions, secret, now>>
    /\ UNCHANGED codecVars

(* cleanExpiredSessions: for (... of this.activeSessions.entries()) *)
SweepBegin(f) ==
    /\ f.op = "cleanExpiredSessions" /\ f.at = "entry"
    /\ Continue(f, [f EXCEPT !.at = "loop", !.todo = DOMAIN activeSessions])
    /\ UNCHANGED <<activeSessions, secret, now>>
    /\ UNCHANGED codecVars

(* cleanExpiredSessions: one turn of the loop, for the entry of i *)
SweepVisit(f, i) ==
    /\ f.op = "cleanExpiredSessions" /\ f.at = "loop"
    /\ i \in f.todo
    /\ activeSessions' =
           IF i \in DOMAIN activeSessions
              /\ DateLE(ParseDate(activeSessions[i].expiry), now)
           THEN MapDelete(activeSessions, i)
           ELSE activeSessions
    /\ Continue(f, [f EXCEPT !.todo = f.todo \ {i}])
    /\ UNCHANGED <<secret, now>>
    /\ UNCHANGED codecVars

(* cleanExpiredSessions: the loop has visited every entry *)
SweepEnd(f) ==
    /\ f.op = "cleanExpiredSessions" /\ f.at = "loop"
    /\ f.todo = {}
    /\ Return(f, NoRet)
    /\ UNCHANGED <<activeSessions, secret, now>>
    /\ UNCHANGED codecVars

(* time passes while no call is in progress *)
TickBetweenCalls ==
    /\ thread = NoFrame
    /\ suspended = {}
    /\ Tick

NextLoop ==
    \/ \E req \in LoopRequests : StartCall(req)
    \/ \E f \in Runnable : ActivateVerify(f)
    \/ \E f \in Runnable : ActivateSet(f)
    \/ \E f \in Runnable : IsActiveGet(f)
    \/ \E f \in Runnable : IsActiveCompare(f)
    \/ \E f \in Runnable : IsActiveDelete(f)
    \/ \E f \in Runnable : GetSessionGet(f)
    \/ \E f \in Runnable : SweepBegin(f)
    \/ \E f \in Runnable, i \in {IdU, IdV} : SweepVisit(f, i)
    \/ \E f \in Runnable : SweepEnd(f)
    \/ TickBetweenCalls

SpecLoop == Init /\ [][NextLoop]_vars

(* ---- a caller of the codec -------------------------------------------- *)
(* nothing in createActivationKey throws: it has no validation *)
CreateThrows(identifier, expiry, plan, nonce, sec) == FALSE

CodecClock == 2

InitCodec ==
    /\ activeSessions = NoSessions
    /\ secret = ConfiguredSecret
    /\ now = CodecClock
    /\ call = NoCall
    /\ before = NoSessions
    /\ log = <<>>
    /\ thread = NoFrame
    /\ suspended = {}
    /\ serial = NoOutcome
    /\ pc = "start"
    /\ token = <<>>
    /\ issued = NoIssued
    /\ tamper = NoTamper
    /\ vsecret = <<>>
    /\ result = NoResult

CreateKey(identifier, expiry, plan, nonce, sec) ==
    /\ pc = "start"
    /\ issued' = [identifier |-> identifier, expiry |-> expiry, plan |-> plan,
                  nonce |-> nonce, secret |-> sec]
    /\ IF CreateThrows(identifier, expiry, plan, nonce, sec)
       THEN pc' = "threw" /\ token' = <<>>
       ELSE /\ pc' = "ready"
            /\ token' = createActivationKey(identifier, expiry, plan, nonce, sec)
    /\ UNCHANGED <<tamper, vsecret, result, now, log>>
    /\ UNCHANGED registryVars
    /\ UNCHANGED loopVars

(* a holder of an issued key replaces one character of its signature *)
TamperSignature(pos, c) ==
    /\ pc = "ready"
    /\ tamper.kind = "none"
    /\ LET decoded == base64UrlDecode(token)
       IN  decoded[LastIndexOf(decoded, Dot) + pos] # c
    /\ token' = TamperedSignatureKey(token, pos, c)
    /\ tamper' = [NoTamper EXCEPT !.kind = "signature", !.pos = pos, !.char = c]
    /\ UNCHANGED <<pc, issued, vsecret, result, now, log>>
    /\ UNCHANGED registryVars
    /\ UNCHANGED loopVars

(* a holder of an issued key replaces one claim and keeps the signature *)
TamperField(field, value) ==
    /\ pc = "ready"
    /\ tamper.kind = "none"
    /\ issued[field] # value
    /\ token' = ForgedKey([issued EXCEPT ![field] = value], issued, issued.secret)
    /\ tamper' = [NoTamper EXCEPT !.kind = "field", !.field = field, !.value = value]
    /\ UNCHANGED <<pc, issued, vsecret, result, now, log>>
    /\ UNCHANGED registryVars
    /\ UNCHANGED loopVars

(* a caller holds a text that createActivationKey did not make *)
PresentRaw(k) ==
    /\ pc = "start"
    /\ pc' = "ready"
    /\ token' = k
    /\ tamper' = [NoTamper EXCEPT !.kind = "raw"]
    /\ UNCHANGED <<issued, vsecret, result, now, log>>
    /\ UNCHANGED registryVars
    /\ UNCHANGED loopVars

Verify(sec) ==
    /\ pc = "ready"
    /\ pc' = "verified"
    /\ vsecret' = sec
    /\ result' = verifyActivationKey(token, sec, now)
    /\ log' = verifyActivationKeyLog(token, sec)
    /\ UNCHANGED <<token, issued, tamper, now>>
    /\ UNCHANGED registryVars
    /\ UNCHANGED loopVars

FieldValues(field) ==
    IF field = "identifier" THEN Identifiers \cup {IdV}
    ELSE IF field = "expiry" THEN Expiries
    ELSE IF field = "plan" THEN Plans
    ELSE Nonces

NextCodec ==
    \/ \E i \in Identifiers, e \in Expiries, p \in Plans, n \in Nonces, s \in Secrets :
           CreateKey(i, e, p, n, s)
    \/ \E pos \in 1..DigestLen, c \in TamperChars : TamperSignature(pos, c)
    \/ \E f \in {"identifier", "expiry", "plan", "nonce"} :
           \E v \in FieldValues(f) : TamperField(f, v)
    \/ \E k \in RawKeys : PresentRaw(k)
    \/ \E s \in Secrets : Verify(s)

SpecCodec == InitCodec /\ [][NextCodec]_vars

(* ======================================================================= *)
(* Properties                                                              *)
(* ======================================================================= *)
Count(s, c) == Cardinality({i \in 1..Len(s) : s[i] = c})

HasBar(s) == Count(s, Bar) > 0

IssuedClaims == Claims(issued.identifier, issued.expiry, issued.plan, issued.nonce)

(* the decoded text has the shape f1|f2|f3|n.sig: three '|', and one '.'   *)
(* after the last of them                                                  *)
WellFormedText(d) ==
    /\ Count(d, Bar) = 3
    /\ Count(SubSeq(d, LastIndexOf(d, Bar) + 1, Len(d)), Dot) = 1

PayloadOfText(d) == SubSeq(d, 1, LastIndexOf(d, Dot) - 1)
SignatureOfText(d) == SubSeq(d, LastIndexOf(d, Dot) + 1, Len(d))
ExpiryOfText(d) ==
    LET first == IndexOf(d, Bar)
        rest  == SubSeq(d, first + 1, Len(d))
    IN  SubSeq(rest, 1, IndexOf(rest, Bar) - 1)

(* the text carries the digest, under sec, of the payload it carries *)
CorrectlySigned(d, sec) ==
    WellFormedText(d) /\ SignatureOfText(d) = generateSignature(PayloadOfText(d), sec)

(* what the presented keys carry and whether it is correctly signed,      *)
(* computed once                                                           *)
CarriedTexts == [k \in PresentedKeys |-> base64UrlDecode(k)]

CarriedText(k) == IF k \in PresentedKeys THEN CarriedTexts[k] ELSE base64UrlDecode(k)

SignedTexts == [k \in PresentedKeys, s \in Secrets |-> CorrectlySigned(CarriedTexts[k], s)]

SignedKey(k, sec) ==
    IF k \in PresentedKeys /\ sec \in Secrets
    THEN SignedTexts[k, sec]
    ELSE CorrectlySigned(base64UrlDecode(k), sec)

(* C1: the translation service is invoked for a translate request only    *)
(* when isActive holds of the request's identifier; a request with a      *)
(* missing or inactive identifier is answered 401 without invoking it.    *)
C1_TranslateRequiresActive ==
    [][(call'.op = "translate" /\ now' = now) =>
          IF isActive(activeSessions, call'.arg, now).ret
          THEN TRUE
          ELSE ~call'.ret.translated /\ call'.ret.status = 401]_vars

(* C2: a key made from claims free of '|' with a future expiry verifies,  *)
(* under the secret it was made with, as valid with exactly those claims. *)
C2_RoundTrip ==
    ( /\ pc = "verified"
      /\ tamper.kind = "none"
      /\ vsecret = issued.secret
      /\ ~HasBar(issued.identifier) /\ ~HasBar(issued.expiry)
      /\ ~HasBar(issued.plan) /\ ~HasBar(issued.nonce)
      /\ ParseDate(issued.expiry) > now )
    => (result.valid /\ result.payload = <<IssuedClaims>>)

(* C3: a key made with one secret and verified with a different one       *)
(* yields "Invalid signature", whatever its claims and expiry.            *)
C3_WrongSecret ==
    (pc = "verified" /\ tamper.kind = "none" /\ vsecret # issued.secret)
    => result.reason = "Invalid signature"

C5_TamperedSignature ==
    (pc = "verified" /\ tamper.kind = "signature" /\ vsecret = issued.secret)
    => result.reason = "Invalid signature"

(* C6: a key that passes the structural and signature checks yields       *)
(* "Key has expired" when its expiry is the current time or earlier, and  *)
(* is valid when its expiry is later than the current time.               *)
C6_ExpiryBoundary ==
    LET d == base64UrlDecode(token)
        expiry == ParseDate(ExpiryOfText(d))
    IN  (pc = "verified" /\ CorrectlySigned(d, vsecret) /\ expiry # NaN)
        => /\ expiry <= now => result.reason = "Key has expired"
           /\ expiry > now => result.valid

C6_Witness ==
    /\ pc = "verified"
    /\ CorrectlySigned(base64UrlDecode(token), vsecret)
    /\ ParseDate(ExpiryOfText(base64UrlDecode(token))) = now
    /\ result.reason = "Key has expired"

(* C7: a key text that is not an output of the Base64URL encoding yields  *)
(* "Key decoding failed".                                                 *)
C7_MalformedEncoding ==
    (pc = "verified" /\ token # base64UrlEncode(base64UrlDecode(token)))
    => result.reason = "Key decoding failed"

(* C8: the first failing check is reported, structure before signature    *)
(* before expiry: a well-formed key whose signature does not match yields *)
(* "Invalid signature" even when its expiry is unparsable or past, and    *)
(* the two expiry reasons are given only to keys whose signature matches. *)
C8_CheckOrder ==
    LET d == base64UrlDecode(token)
    IN  pc = "verified"
        => /\ (WellFormedText(d) /\ ~CorrectlySigned(d, vsecret))
                  => result.reason = "Invalid signature"
           /\ result.reason \in {"Key has expired", "Invalid expiry date format"}
                  => CorrectlySigned(d, vsecret)

C8_Witness ==
    LET d == base64UrlDecode(token)
    IN  /\ pc = "verified"
        /\ WellFormedText(d)
        /\ ~CorrectlySigned(d, vsecret)
        /\ ~(ParseDate(ExpiryOfText(d)) > now)
        /\ result.reason = "Invalid signature"

(* C9: createActivationKey fails, and returns no key, when identifier,    *)
(* plan or nonce contains '|'.                                            *)
C9_DelimiterRejected ==
    ( /\ issued # NoIssued
      /\ (HasBar(issued.identifier) \/ HasBar(issued.plan) \/ HasBar(issued.nonce)) )
    => (pc = "threw" /\ token = <<>>)

(* C10: an activation whose key does not verify returns not-ok with the   *)
(* reason verifyActivationKey gives and leaves the session map as it was. *)
C10_RejectedActivationChangesNothing ==
    [][(call'.op = "activate" /\ ~call'.ret.ok /\ now' = now)
          => /\ activeSessions' = activeSessions
             /\ ~Verified(call'.arg, secret, now).valid
             /\ call'.ret.reason = Verified(call'.arg, secret, now).reason
             /\ call'.ret.identifier = <<>>]_vars

C10_Witness ==
    /\ call.op = "activate"
    /\ ~call.ret.ok
    /\ call.ret.reason = "Invalid signature"
    /\ activeSessions # NoSessions

(* the first three '|'-separated fields of a text *)
FieldsOfText(d) ==
    LET parts == Split(d, Bar)
    IN  IF Len(parts) >= 3
        THEN [identifier |-> parts[1], expiry |-> parts[2], plan |-> parts[3]]
        ELSE [identifier |-> <<>>, expiry |-> <<>>, plan |-> <<>>]

CarriedFields == [k \in PresentedKeys |-> FieldsOfText(CarriedTexts[k])]

FieldsOfKey(k) ==
    IF k \in PresentedKeys THEN CarriedFields[k] ELSE FieldsOfText(base64UrlDecode(k))

ExpiryOf(session) == ParseDate(session.expiry)

(* C11: an accepted activation is an unconditional last-write-wins        *)
(* upsert: right after it the session stored for the key's identifier     *)
(* holds exactly the key's identifier, plan and expiry with activatedAt   *)
(* the current time, whatever was stored for that identifier before, and  *)
(* the sessions of the other identifiers are as they were.                *)
C11_AcceptedActivationUpserts ==
    [][(call'.op = "activate" /\ call'.ret.ok /\ now' = now) =>
          LET c == FieldsOfKey(call'.arg)
          IN  /\ getSession(activeSessions', c.identifier)
                    = <<[identifier  |-> c.identifier,
                         plan        |-> c.plan,
                         expiry      |-> c.expiry,
                         activatedAt |-> now]>>
              /\ DOMAIN activeSessions' = DOMAIN activeSessions \cup {c.identifier}
              /\ \A i \in DOMAIN activeSessions \ {c.identifier} :
                     activeSessions'[i] = activeSessions[i]]_vars

(* an accepted activation replaced a session of later expiry and other plan *)
C11_Witness ==
    /\ call.op = "activate"
    /\ call.ret.ok
    /\ call.ret.identifier \in DOMAIN before
    /\ call.ret.identifier \in DOMAIN activeSessions
    /\ ExpiryOf(before[call.ret.identifier]) > ExpiryOf(activeSessions[call.ret.identifier])
    /\ before[call.ret.identifier].plan # activeSessions[call.ret.identifier].plan
    /\ activeSessions[call.ret.identifier].expiry = call.ret.expiry

(* the sessions of every identifier but i are the same in both maps *)
SameButFor(i, m1, m2) ==
    /\ DOMAIN m1 \ {i} = DOMAIN m2 \ {i}
    /\ \A j \in DOMAIN m1 \ {i} : m1[j] = m2[j]

(* C12: isActive(identifier) returns true exactly when a session is       *)
(* stored for the identifier with an expiry later than now; with no       *)
(* session stored it changes nothing; with a stored expiry at or before   *)
(* now it deletes that entry, and only that entry; when it returns true   *)
(* the map is unchanged.                                                  *)
C12_IsActive ==
    [][(call'.op = "isActive" /\ now' = now) =>
          LET i == call'.arg
              stored == i \in DOMAIN activeSessions
              live == stored /\ ExpiryOf(activeSessions[i]) > now
          IN  /\ call'.ret.ok = live
              /\ ~stored => activeSessions' = activeSessions
              /\ live => activeSessions' = activeSessions
              /\ (stored /\ ~live) =>
                     /\ i \notin DOMAIN activeSessions'
                     /\ SameButFor(i, activeSessions, activeSessions')]_vars

(* isActive found a session expiring at this very instant and deleted it, *)
(* another identifier's session staying                                   *)
C12_Witness ==
    /\ call.op = "isActive"
    /\ ~call.ret.ok
    /\ call.arg \in DOMAIN before
    /\ ExpiryOf(before[call.arg]) = now
    /\ call.arg \notin DOMAIN activeSessions
    /\ activeSessions # NoSessions

(* the step is an accepted activation of a key for identifier i *)
AcceptsFor(i) ==
    call'.op = "activate" /\ call'.ret.ok /\ call'.ret.identifier = i /\ now' = now

(* C13: session lifecycle.  A stored session whose expiry is still ahead   *)
(* stays stored, unchanged, until a key is accepted again for its          *)
(* identifier, and isActive of that identifier returns true; once the      *)
(* clock is at or past the stored expiry, isActive of the identifier       *)
(* returns false and leaves no session for it, and a getSession of the     *)
(* identifier that follows that isActive call returns absent.              *)
C13_Lifecycle ==
    [][/\ \A i \in DOMAIN activeSessions :
              (ExpiryOf(activeSessions[i]) > now /\ ~AcceptsFor(i))
              => /\ i \in DOMAIN activeSessions'
                 /\ activeSessions'[i] = activeSessions[i]
                 /\ (call'.op = "isActive" /\ call'.arg = i /\ now' = now)
                        => call'.ret.ok
       /\ (/\ call'.op = "isActive" /\ now' = now
           /\ call'.arg \in DOMAIN activeSessions
           /\ ExpiryOf(activeSessions[call'.arg]) <= now)
          => /\ ~call'.ret.ok
             /\ getSession(activeSessions', call'.arg) = <<>>
       /\ (/\ call.op = "isActive" /\ ~call.ret.ok
           /\ call'.op = "getSession" /\ call'.arg = call.arg)
          => call'.ret.session = <<>>]_vars

(* a session activated ahead of its expiry has been found expired by      *)
(* isActive after the clock passed the expiry, and is absent              *)
C13_Witness ==
    /\ call.op = "isActive"
    /\ ~call.ret.ok
    /\ call.arg \in DOMAIN before
    /\ before[call.arg].activatedAt < ExpiryOf(before[call.arg])
    /\ ExpiryOf(before[call.arg]) < now
    /\ getSession(activeSessions, call.arg) = <<>>

(* a session is stored for identifier i and its expiry has passed *)
StoredExpired(i) ==
    i \in DOMAIN activeSessions /\ ExpiryOf(activeSessions[i]) <= now

(* C14: in the running application every session whose expiry has passed  *)
(* is eventually removed from the registry (or replaced by a live one),   *)
(* whether or not any request arrives.                                    *)
C14_ExpiredEventuallySwept ==
    \A i \in {IdU, IdV} : StoredExpired(i) ~> ~StoredExpired(i)

(* C16: getSession(identifier) is a pure read: it returns the stored      *)
(* session, or absent when none is stored, and leaves the session map     *)
(* as it was, also when the stored session's expiry is at or before now.  *)
C16_GetSessionPure ==
    [][(call'.op = "getSession" /\ now' = now) =>
          /\ activeSessions' = activeSessions
          /\ call'.arg \notin DOMAIN activeSessions => call'.ret.session = <<>>
          /\ call'.arg \in DOMAIN activeSessions
                 => call'.ret.session = <<activeSessions[call'.arg]>>]_vars

(* getSession returned a session whose expiry has passed, and the session *)
(* is still stored                                                        *)
C16_Witness ==
    /\ call.op = "getSession"
    /\ call.ret.session # <<>>
    /\ ExpiryOf(call.ret.session[1]) <= now
    /\ call.arg \in DOMAIN activeSessions
    /\ activeSessions = before

(* C17: the payload/signature separator is looked for first, at the last  *)
(* '.' of the decoded text: verification answers "Invalid nonce/signature *)
(* format" exactly for the texts that hold no '.', however many '|'       *)
(* fields they have and wherever else '.' occurs in them.                 *)
C17_SeparatorCheckedFirst ==
    pc = "verified" =>
        LET d == base64UrlDecode(token)
        IN  /\ Count(d, Dot) = 0 => result.reason = "Invalid nonce/signature format"
            /\ result.reason = "Invalid nonce/signature format" => Count(d, Dot) = 0

(* C18: the sweep removes exactly the sessions whose expiry is at or      *)
(* before now: after it no stored session has such an expiry, and every   *)
(* session of later expiry is still stored, unchanged.                    *)
C18_SweepExact ==
    [][(call'.op = "cleanExpiredSessions" /\ now' = now) =>
          /\ DOMAIN activeSessions'
                 = {i \in DOMAIN activeSessions : ExpiryOf(activeSessions[i]) > now}
          /\ \A i \in DOMAIN activeSessions' : activeSessions'[i] = activeSessions[i]
          /\ \A i \in DOMAIN activeSessions' : ~(ExpiryOf(activeSessions'[i]) <= now)]_vars

(* a sweep removed one session and kept another *)
C18_Witness ==
    /\ call.op = "cleanExpiredSessions"
    /\ \E i \in DOMAIN before : i \notin DOMAIN activeSessions
    /\ \E i \in DOMAIN before :
           i \in DOMAIN activeSessions /\ activeSessions[i] = before[i]

(* C19: per identifier there are two states, no session and active.  An   *)
(* identifier gets a session, or a different one, only by an accepted     *)
(* activation for it; it loses its session only by an isActive call for   *)
(* it or by a sweep, and only when the stored expiry is at or before now. *)
C19_StateMachine ==
    [][\A i \in DOMAIN activeSessions \cup DOMAIN activeSessions' :
          /\ (i \notin DOMAIN activeSessions) => AcceptsFor(i)
          /\ (i \in DOMAIN activeSessions /\ i \in DOMAIN activeSessions'
                 /\ activeSessions'[i] # activeSessions[i]) => AcceptsFor(i)
          /\ (i \notin DOMAIN activeSessions')
                 => /\ ExpiryOf(activeSessions[i]) <= now
                    /\ now' = now
                    /\ \/ call'.op = "isActive" /\ call'.arg = i
                       \/ call'.op = "cleanExpiredSessions"
          /\ (i \in DOMAIN activeSessions') => activeSessions'[i].identifier = i]_vars

(* a sweep has taken every stored session back to no session *)
C19_Witness ==
    /\ call.op = "cleanExpiredSessions"
    /\ before # NoSessions
    /\ activeSessions = NoSessions
    /\ \A i \in DOMAIN before : ExpiryOf(before[i]) <= now

(* some console line holds the text t *)
LogHolds(t) == \E l \in 1..Len(log) : \E j \in 1..Len(log[l].texts) : log[l].texts[j] = t

(* C20: what verifyActivationKey writes to the console for a key is the   *)
(* same under every secret, holds neither the secret nor the signature    *)
(* expected under it, and holds none of the claims the key carries.       *)
C20_LogIndependentOfSecret ==
    pc = "verified" =>
        LET d == base64UrlDecode(token)
        IN  /\ \A s \in Secrets : verifyActivationKeyLog(token, s) = log
            /\ ~LogHolds(vsecret)
            /\ WellFormedText(d) => ~LogHolds(generateSignature(PayloadOfText(d), vsecret))
            /\ WellFormedText(d) => ~LogHolds(PayloadOfText(d))
            /\ Count(d, Bar) >= 2 => ~LogHolds(FieldsOfText(d).identifier)

(* the session is the whole record of one presented key *)
WholeRecord(i, session) ==
    /\ session.identifier = i
    /\ \E k \in LoopKeys :
           /\ FieldsOfKey(k) = [identifier |-> session.identifier,
                                expiry |-> session.expiry, plan |-> session.plan]
           /\ SignedKey(k, secret)
    /\ session.activatedAt \in 0..now

(* C15: registry calls are atomic with respect to each other.  Whenever   *)
(* the thread is free for a handler to call the registry, the session map *)
(* is the one that the calls returned so far produce when each is applied *)
(* whole, in order of return, and the last call returned what it returns  *)
(* when applied whole; every stored session is the whole record of one    *)
(* accepted key, never a mix; so the sessions of accepted activations for *)
(* distinct identifiers are all retrievable.                              *)
C15_CallsAreAtomic ==
    /\ thread = NoFrame =>
           /\ activeSessions = serial.sessions
           /\ call.ret = serial.ret
    /\ \A i \in DOMAIN activeSessions : WholeRecord(i, activeSessions[i])

(* a sweep is part-way through its loop: it has removed one session and   *)
(* not yet visited the other                                              *)
C15_Witness ==
    /\ thread.op = "cleanExpiredSessions"
    /\ thread.at = "loop"
    /\ thread.todo # {}
    /\ activeSessions # thread.found
    /\ activeSessions # serial.sessions

(* C21: identifier isolation.  activate with a key for identifier A and   *)
(* isActive(A) change at most the entry of A: for every other identifier  *)
(* the stored session is present or absent as before and, when present,   *)
(* has the same plan, expiry and activatedAt, so no key and no liveness   *)
(* check for one identifier activates, extends, shortens or removes the   *)
(* session of another.                                                    *)
C21_IdentifierIsolation ==
    [][/\ call'.op = "activate" =>
              SameButFor(FieldsOfKey(call'.arg).identifier,
                         activeSessions, activeSessions')
       /\ call'.op = "isActive" =>
              SameButFor(call'.arg, activeSessions, activeSessions')]_vars

(* a key of another plan was accepted for an identifier that had a        *)
(* session, while the expired session of another identifier stayed as it  *)
(* was                                                                    *)
C21_Witness ==
    /\ call.op = "activate"
    /\ call.ret.ok
    /\ call.ret.identifier \in DOMAIN before
    /\ activeSessions[call.ret.identifier] # before[call.ret.identifier]
    /\ \E j \in DOMAIN before \ {call.ret.identifier} :
           /\ DateLE(ExpiryOf(before[j]), now)
           /\ before[j].plan # call.ret.plan
           /\ j \in DOMAIN activeSessions
           /\ activeSessions[j] = before[j]

====
